---- MODULE Spec2Model ----
(***************************************************************************)
(* GIFLight: the target-size optimization engine of ModernGifConverter.    *)
(* convert_to_gif runs on an asyncio loop in a worker thread; the encode   *)
(* attempts of a tier are tasks of that loop; the assembler (gifski), the  *)
(* lossy optimizer (gifsicle) and the polish pass (ImageMagick) are        *)
(* external processes; the cancellation flag is a threading.Event set by   *)
(* the UI thread.                                                          *)
(***************************************************************************)
EXTENDS Integers, Sequences, FiniteSets, TLC

(* ------------------------------ bounds --------------------------------- *)
\* attempts taken from the head of each tier's cross product
AttemptsPerTier == 2
\* tiers taken from the head of batch_params
MaxTiers == 2
\* paths of the cleanup set whose removal fails in one cleanup
MaxRemovalFailures == 1
\* files in the batch queue
MaxQueue == 2
\* largest loop_count setting tried
MaxPlayCount == 3
\* largest frame_skip tried on its own
MaxSkip == 4
\* rounds of the polling loop a wait for gifski is followed for
MaxPolls == 110

(* ------------------------- program constants --------------------------- *)
\* float('inf'): the size of a failed attempt and the initial best_size
Inf == 1000000000
\* desired_size = None (empty size entry)
None == 0
\* the sizes the user may enter, in KB (toggle_conversion accepts only > 0)
DesiredSizes == {5}
\* the byte sizes an optimizer or polish output can have
Sizes == {4000, 4864, 4900, 5120, 6000}

\* the byte sizes a polish output or the no-target output can have
FinalSizes == {4000, 6000}

\* batch_params of convert_to_gif
batch_params ==
  << [qualities |-> <<100, 95, 90>>, lossies |-> <<0, 20, 40>>,  frame_skips |-> <<0, 1>>],
     [qualities |-> <<90, 85, 80>>,  lossies |-> <<60, 70, 80>>, frame_skips |-> <<1, 2>>],
     [qualities |-> <<80, 80, 80>>,  lossies |-> <<60, 70, 80>>, frame_skips |-> <<2, 3, 4>>] >>

NumTiers == IF MaxTiers < Len(batch_params) THEN MaxTiers ELSE Len(batch_params)
Tiers == 1 .. NumTiers
\* the positions of a tier's attempts in its task list
Slots == 0 .. (AttemptsPerTier - 1)

\* the i-th (0-based) combination of the nested quality/lossy/frame_skip loops
TierParams(b, i) ==
  LET t  == batch_params[b]
      nl == Len(t.lossies)
      ns == Len(t.frame_skips)
  IN  [quality    |-> t.qualities[((i \div (nl * ns)) % Len(t.qualities)) + 1],
       lossy      |-> t.lossies[((i \div ns) % nl) + 1],
       frame_skip |-> t.frame_skips[(i % ns) + 1]]

(* ------------------------------ the disk ------------------------------- *)
\* a path: kind, tier (0 if none), position in the tier (0 if none)
P(k, b, i) == [kind |-> k, b |-> b, i |-> i]
NoPath        == P("", 0, 0)
TempParent    == P("gif_conversion_temp", 0, 0)
FramesDir     == P("frames_temp", 0, 0)
OutputPath    == P("output", 0, 0)
MaxQ          == P("max_quality", 0, 0)
MaxQOpt       == P("max_quality_optimized", 0, 0)
BatchDir(b)   == P("batch", b, 0)
SkipDir(b, i) == P("frames_skip", b, i)
TempOut(b, i) == P("temp", b, i)
TempOpt(b, i) == P("temp_optimized", b, i)
\* imagemagick_temp.gif lives in the directory of the polished file
ImTemp(src)   == IF src = MaxQOpt THEN P("imagemagick_temp", 0, 0)
                 ELSE P("imagemagick_temp", src.b, 0)

\* p is d itself or lies inside directory d
Under(p, d) ==
  \/ p = d
  \/ d = TempParent /\ p # OutputPath /\ p # NoPath
  \/ d.kind = "batch" /\ p.b = d.b
       /\ p.kind \in {"temp", "temp_optimized", "imagemagick_temp"}

RemoveWithDir(dsk, d) ==
  { p \in dsk : ~Under(p, d) /\ ~(d.b # 0 /\ Under(p, BatchDir(d.b))) }

\* shutil.rmtree / os.remove
Remove(dsk, d) == { p \in dsk : ~Under(p, d) }

ParentDir(p) ==
  IF p.kind \in {"temp", "temp_optimized"} \/ (p.kind = "imagemagick_temp" /\ p.b # 0)
  THEN BatchDir(p.b)
  ELSE IF p = OutputPath \/ p = TempParent \/ p = NoPath THEN NoPath
  ELSE TempParent

\* a process can create p only if its directory is there
CanCreate(dsk, p) == ParentDir(p) = NoPath \/ ParentDir(p) \in dsk

(* ------------------------------ state ---------------------------------- *)
VARIABLES
  is_converting,            \* ModernGifConverter.is_converting
  cancellation_event,       \* threading.Event: TRUE when set
  desired_size,             \* argument of convert_to_gif (None or KB)
  pc,                       \* position of convert_to_gif
  batch_idx,
  attempt_counter,
  best_size,
  best_result,
  found_acceptable_result,
  batch_results_under_target,
  temp_files_to_cleanup,
  task,                     \* pending: the asyncio tasks of the current tier
  done_queue,               \* as_completed: finished, not yet consumed
  consumed,                 \* tasks whose result the for loop has taken
  result,                   \* size, temp_path, skip_dir of the result loop
  tier_candidates,          \* history: kinds of valid results this tier gave
  cleanup_errors,           \* paths whose removal failed and was logged
  proc,                     \* external processes
  disk,                     \* existing paths
  out_size,                 \* size of the file at the output path
  report,                   \* what the run told the user
  size_entry,               \* the size field of the window (None: empty)
  conversion_thread,        \* target of the conversion thread that is alive
  is_processing_batch,      \* BatchProcessingFrame.is_processing_batch
  current_processing_index, \* BatchProcessingFrame.current_processing_index
  pending,                  \* Tk callbacks scheduled with after() and not yet run
  batch_message,            \* the dialog the last process_next_file showed
  waiter,                   \* the wait_for_conversion_end thread
  prev_cancelled,           \* history: the flag was set when the last run ended
  call,                     \* a function under test and its arguments
  ret                       \* what it returned

vars == << is_converting, cancellation_event, desired_size, pc,
           batch_idx, attempt_counter, best_size, best_result,
           found_acceptable_result, batch_results_under_target,
           temp_files_to_cleanup, task, done_queue, consumed, result,
           tier_candidates, cleanup_errors, proc, disk, out_size, report,
           size_entry, conversion_thread, is_processing_batch, current_processing_index, pending,
           batch_message, waiter, prev_cancelled, call, ret >>

\* the batch queue and the helper thread of the UI
uiVars == << size_entry, conversion_thread, is_processing_batch,
            current_processing_index, pending, batch_message, waiter,
            prev_cancelled >>
batchVars == << is_processing_batch, current_processing_index, pending,
               batch_message >>
fnVars == << call, ret >>

runLocals == << batch_idx, attempt_counter, best_size, best_result,
                found_acceptable_result, batch_results_under_target,
                temp_files_to_cleanup, consumed, result, tier_candidates,
                cleanup_errors >>

\* external processes: one assembler and one optimizer per task of the
\* tier, the two of the no-target attempt, and the polish pass
Gifski(i)   == P("gifski", 0, i)
Gifsicle(i) == P("gifsicle", 0, i)
GifskiMax   == P("gifski_max", 0, 0)
GifsicleMax == P("gifsicle_max", 0, 0)
ImageMagick == P("imagemagick", 0, 0)
ProcIds == { Gifski(i) : i \in Slots } \cup { Gifsicle(i) : i \in Slots }
             \cup { GifskiMax, GifsicleMax, ImageMagick }

\* "none": not launched; "running"; "exited"
Live(p) == proc[p] = "running"

\* float('inf'), "", skip_dir
FailedResult(skip) == [size |-> Inf, path |-> NoPath, skip |-> skip]
\* the exit codes of an external process: 0, and one that is not 0
ExitCodes == {0, 1}
\* a task: its position, its frame directory, whether it finished with an
\* optimized file, and the exit code of the gifsicle process of an attempt
\* that returned its file
NewTask == [pc |-> "none", skip_dir |-> NoPath, ok |-> FALSE, rc |-> 0]

\* no function is under test
NoCall == [fn |-> "none"]

target_size_bytes == IF desired_size # None THEN desired_size * 1024 ELSE None

\* the window after construction with s in its size field, on disk dsk, with
\* function call c under test
Constructed(s, dsk, c) ==
  /\ size_entry = s
  /\ conversion_thread = "none"
  /\ is_converting = FALSE
  /\ cancellation_event = FALSE
  /\ desired_size = None
  /\ pc = "idle"
  /\ batch_idx = 0
  /\ attempt_counter = 0
  /\ best_size = Inf
  /\ best_result = NoPath
  /\ found_acceptable_result = FALSE
  /\ batch_results_under_target = FALSE
  /\ temp_files_to_cleanup = {}
  /\ task = [i \in Slots |-> NewTask]
  /\ done_queue = << >>
  /\ consumed = {}
  /\ result = FailedResult(NoPath)
  /\ tier_candidates = {}
  /\ cleanup_errors = {}
  /\ proc = [p \in ProcIds |-> "none"]
  /\ disk = dsk
  /\ out_size = 0
  /\ report = "none"
  /\ is_processing_batch = FALSE
  /\ current_processing_index = -1
  /\ pending = {}
  /\ batch_message = "none"
  /\ waiter = {}
  /\ prev_cancelled = FALSE
  /\ call = c
  /\ ret = NoCall

Launched(s) == Constructed(s, {}, NoCall)

Init == \E s \in DesiredSizes \cup {None} : Launched(s)

(* --------------------------- the UI thread ----------------------------- *)
\* the model follows one conversion thread at a time: pc and the run's
\* locals are those of the thread started first.  A thread started while
\* that one is alive makes conversion_thread "several"; it shares
\* is_converting and the flag with the first, and is not followed further.

ClearSkipped(ev) == ev

\* threading.Event.clear()
Clear(ev) == FALSE

\* the start of a conversion thread: size field, flag reset, is_converting
StartThread(target) ==
  \* the thread function ends right after convert_to_gif has returned: no
  \* click and no timer is taken to fall between the two
  /\ pc # "returned"
  /\ cancellation_event' = Clear(cancellation_event)
  /\ is_converting' = TRUE
  /\ IF pc = "idle"
     THEN /\ desired_size' = size_entry
          /\ conversion_thread' = target
          /\ pc' = "setup"
     ELSE /\ conversion_thread' = "several"
          /\ UNCHANGED << desired_size, pc >>

\* Convert button while no conversion runs and the batch queue is not used
toggle_conversion ==
  /\ ~is_converting
  /\ StartThread("run_conversion")
  /\ UNCHANGED << runLocals, task, done_queue, proc, disk, out_size, report,
                  size_entry, batchVars, waiter, prev_cancelled, fnVars >>

\* the body of stop_conversion: sets the flag and starts the thread that
\* waits for the conversion thread
StopIfConverting ==
  IF is_converting
  THEN /\ cancellation_event' = TRUE
       /\ waiter' = waiter \cup {"joining"}
  ELSE UNCHANGED << cancellation_event, waiter >>

\* Stop button outside batch processing: stop_conversion
stop_conversion ==
  /\ is_converting
  /\ ~is_processing_batch
  /\ ~cancellation_event
  /\ StopIfConverting
  /\ UNCHANGED << is_converting, desired_size, pc, runLocals, task,
                  done_queue, proc, disk, out_size, report, size_entry,
                  conversion_thread, batchVars, prev_cancelled, fnVars >>

\* conversion_thread.join() returns in wait_for_conversion_end
WaiterJoined ==
  /\ "joining" \in waiter
  /\ pc = "idle"
  /\ waiter' = (waiter \ {"joining"}) \cup {"joined"}
  /\ UNCHANGED << is_converting, cancellation_event, desired_size, pc,
                  runLocals, task, done_queue, proc, disk, out_size, report,
                  size_entry, conversion_thread, batchVars, prev_cancelled,
                  fnVars >>

\* the rest of wait_for_conversion_end
wait_for_conversion_end ==
  /\ "joined" \in waiter
  /\ is_converting' = FALSE
  /\ waiter' = waiter \ {"joined"}
  /\ UNCHANGED << cancellation_event, desired_size, pc,
                  runLocals, task, done_queue, proc, disk, out_size, report,
                  size_entry, conversion_thread, batchVars, prev_cancelled,
                  fnVars >>

\* the callback of a batch file's run in the Tk queue, with its success
\* argument
BatchCallback(success) ==
  IF success THEN "batch_callback(True)" ELSE "batch_callback(False)"

\* the success value of convert_to_gif_batch after convert_to_gif has
\* returned: os.path.exists(output_path)
convert_to_gif_batch(dsk) == OutputPath \in dsk

\* the conversion thread ends; the Process objects and what the run
\* reported go with it.  cb: run_batch_conversion schedules the callback.
\* From here on OutputPath is the output path of the file converted next,
\* which may exist already.
ThreadEnds(target, cb) ==
  /\ pc = "returned"
  /\ conversion_thread = target
  /\ pc' = "idle"
  /\ conversion_thread' = "none"
  /\ is_converting' = IF cb THEN FALSE ELSE is_converting
  /\ pending' = IF cb
                THEN pending \cup {BatchCallback(convert_to_gif_batch(disk))}
                ELSE pending
  /\ \E exists \in BOOLEAN :
       disk' = IF exists THEN disk \cup {OutputPath} ELSE disk \ {OutputPath}
  /\ out_size' = 0
  /\ prev_cancelled' = cancellation_event
  /\ proc' = [p \in ProcIds |-> "none"]
  /\ report' = "none"
  /\ batch_idx' = 0
  /\ cleanup_errors' = {}
  /\ UNCHANGED << cancellation_event, desired_size, attempt_counter,
                  best_size, best_result, found_acceptable_result,
                  batch_results_under_target, temp_files_to_cleanup, consumed,
                  result, tier_candidates, task, done_queue,
                  size_entry, is_processing_batch, current_processing_index,
                  batch_message, waiter, fnVars >>

run_conversion == ThreadEnds("run_conversion", FALSE)

run_batch_conversion == ThreadEnds("run_batch_conversion", TRUE)

(* ------------------------- batch processing ---------------------------- *)
\* process_next_file when the batch goes on: start_batch_conversion
start_batch_conversion ==
  /\ StartThread("run_batch_conversion")

\* Process Batch button: toggle_batch_processing, start_batch_processing
\* and the first process_next_file
start_batch_processing ==
  /\ ~is_converting
  /\ ~is_processing_batch
  /\ is_processing_batch' = TRUE
  /\ current_processing_index' = 0
  /\ start_batch_conversion
  /\ UNCHANGED << runLocals, task, done_queue, proc, disk, out_size, report,
                  size_entry, pending, batch_message, waiter, prev_cancelled,
                  fnVars >>

\* Stop button during batch processing
stop_batch_processing ==
  /\ is_processing_batch
  /\ is_processing_batch' = FALSE
  /\ StopIfConverting
  /\ UNCHANGED << is_converting, desired_size, pc, runLocals, task,
                  done_queue, proc, disk, out_size, report, size_entry,
                  conversion_thread, current_processing_index, pending,
                  batch_message, prev_cancelled, fnVars >>

\* the callback of run_batch_conversion
on_file_processed ==
  /\ \E success \in BOOLEAN : BatchCallback(success) \in pending
  /\ current_processing_index' = current_processing_index + 1
  /\ pending' = (pending \ { BatchCallback(success) : success \in BOOLEAN })
                  \cup {"process_next_file"}
  /\ UNCHANGED << is_converting, cancellation_event, desired_size, pc,
                  runLocals, task, done_queue, proc, disk, out_size, report,
                  size_entry, conversion_thread, is_processing_batch,
                  batch_message, waiter, prev_cancelled, fnVars >>

\* if not self.converter.cancellation_event.is_set(): showinfo(...,
\* "Batch processing completed")
CompletedShown(ev) == ~ev

\* process_next_file scheduled by on_file_processed
process_next_file ==
  /\ "process_next_file" \in pending
  /\ pending' = pending \ {"process_next_file"}
  /\ IF ~is_processing_batch \/ current_processing_index >= MaxQueue
     THEN /\ is_processing_batch' = FALSE
          /\ StopIfConverting
          /\ batch_message' = IF CompletedShown(cancellation_event')
                               THEN "completed" ELSE "none"
          /\ UNCHANGED << is_converting, desired_size, pc, conversion_thread >>
     ELSE /\ start_batch_conversion
          /\ batch_message' = "none"
          /\ UNCHANGED << is_processing_batch, waiter >>
  /\ UNCHANGED << runLocals, task, done_queue, proc, disk, out_size, report,
                  size_entry, current_processing_index, prev_cancelled,
                  fnVars >>

(* --------------------------- convert_to_gif ---------------------------- *)
\* except Exception at the end of convert_to_gif: the error is shown unless
\* the flag is set
ErrorReport == IF cancellation_event THEN report ELSE "error"

NoTargetNever(ds) == FALSE

\* if desired_size is None: the single maximum-quality attempt
NoTarget(ds) == ds = None

\* creation of the temporary tree, first cancellation check
Setup ==
  /\ pc = "setup"
  /\ disk' = Remove(disk, TempParent) \cup {TempParent, FramesDir}
  /\ pc' = IF cancellation_event THEN "cleanup" ELSE "extract"
  /\ UNCHANGED << is_converting, cancellation_event, desired_size,
                  runLocals, task, done_queue, proc, out_size, report >>
  /\ UNCHANGED << uiVars, fnVars >>

\* frame extraction and transparency processing; either can raise
Extract ==
  /\ pc = "extract"
  /\ \E ok \in BOOLEAN :
       IF cancellation_event
       THEN pc' = "cleanup" /\ report' = report
       ELSE IF ~ok
       THEN pc' = "cleanup" /\ report' = ErrorReport
       ELSE /\ pc' = IF NoTarget(desired_size) THEN "max_start" ELSE "tier_start"
            /\ report' = report
  /\ batch_idx' = 1
  /\ UNCHANGED << is_converting, cancellation_event, desired_size,
                  attempt_counter, best_size, best_result,
                  found_acceptable_result, batch_results_under_target,
                  temp_files_to_cleanup, consumed, result, tier_candidates,
                  cleanup_errors, task, done_queue, proc, disk, out_size >>
  /\ UNCHANGED << uiVars, fnVars >>

CleanupParentSkipped(dsk, fails) == dsk

\* shutil.rmtree(temp_parent_dir) of the finally block; a failure is logged
CleanupParent(dsk, fails) == IF fails THEN dsk ELSE Remove(dsk, TempParent)

\* the finally block: every path of the cleanup set, then the parent tree;
\* each removal can fail and is then logged and skipped
Cleanup ==
  /\ pc = "cleanup"
  /\ \E failed \in { f \in SUBSET (temp_files_to_cleanup \cap disk) :
                         Cardinality(f) <= MaxRemovalFailures },
        parentFails \in BOOLEAN :
       LET step1 == { p \in disk :
                        ~\E d \in temp_files_to_cleanup \ failed : Under(p, d) }
           pf    == parentFails /\ TempParent \in step1
       IN  /\ disk' = CleanupParent(step1, pf)
           /\ cleanup_errors' = failed \cup (IF pf THEN {TempParent} ELSE {})
  /\ is_converting' = FALSE
  /\ pc' = "returned"
  \* the locals of convert_to_gif end with it; the loop is never run again,
  \* so the unfinished tasks are never resumed
  /\ attempt_counter' = 0
  /\ best_size' = Inf
  /\ best_result' = NoPath
  /\ found_acceptable_result' = FALSE
  /\ batch_results_under_target' = FALSE
  /\ temp_files_to_cleanup' = {}
  /\ consumed' = {}
  /\ result' = FailedResult(NoPath)
  /\ tier_candidates' = {}
  /\ done_queue' = << >>
  /\ task' = [i \in Slots |-> NewTask]
  /\ UNCHANGED << cancellation_event, desired_size, batch_idx, proc, out_size,
                  report >>
  /\ UNCHANGED << uiVars, fnVars >>

(* ------------------------- external processes -------------------------- *)
\* the file apply_imagemagick_optimization works on
PolishSource == IF desired_size = None THEN MaxQOpt ELSE best_result

\* the file a process writes when it runs to its end and succeeds
OutputOf(p) ==
  IF p.kind = "gifski" THEN TempOut(batch_idx, p.i)
  ELSE IF p.kind = "gifsicle" THEN TempOpt(batch_idx, p.i)
  ELSE IF p = GifskiMax THEN MaxQ
  ELSE IF p = GifsicleMax THEN MaxQOpt
  ELSE ImTemp(PolishSource)

\* what it reads
InputOf(p) ==
  IF p.kind = "gifski" THEN task[p.i].skip_dir
  ELSE IF p.kind = "gifsicle" THEN TempOut(batch_idx, p.i)
  ELSE IF p = GifskiMax THEN FramesDir
  ELSE IF p = GifsicleMax THEN MaxQ
  ELSE PolishSource

\* the disk after p has exited: a process that ran to its end and succeeded
\* (ok) has written its output, a terminated one has not
AfterExit(p, ok, dsk) ==
  IF /\ proc[p] = "running"
     /\ ok
     /\ InputOf(p) \in dsk
     /\ CanCreate(dsk, OutputOf(p))
  THEN dsk \cup {OutputOf(p)}
  ELSE dsk

\* nobody will observe the exit of p any more: convert_to_gif has left its
\* last await, the loop stops and the unfinished tasks are never resumed
Orphan(p) ==
  /\ p.kind \in {"gifski", "gifsicle"}
  /\ pc \in {"cleanup", "returned"}

\* exit of a process that no coroutine waits for (the exit of an awaited
\* process is part of the step that resumes the waiting coroutine).  What it
\* wrote lies in a batch directory and is not opened again: the directory
\* stands for it.
ProcExit(p) ==
  /\ Live(p)
  /\ Orphan(p)
  /\ proc' = [proc EXCEPT ![p] = "exited"]
  /\ UNCHANGED << is_converting, cancellation_event, desired_size, pc,
                  runLocals, task, done_queue, disk, out_size, report >>
  /\ UNCHANGED << uiVars, fnVars >>

(* ------------------------ the Frame-Skip Preparer ---------------------- *)
PrepareFromSkipOne(dsk, src, skip, b, i, hasFrames, copyOk) ==
  IF skip < 1 THEN [dir |-> src, disk |-> dsk]
  ELSE IF ~hasFrames THEN [dir |-> src, disk |-> dsk \cup {SkipDir(b, i)}]
  ELSE IF ~copyOk THEN [dir |-> src, disk |-> Remove(dsk, SkipDir(b, i))]
  ELSE [dir |-> SkipDir(b, i), disk |-> dsk \cup {SkipDir(b, i)}]

\* prepare_frames_with_skip(source_dir, skip, batch_id, attempt_id) on disk
\* dsk; hasFrames: the source holds frames; copyOk: the copies succeed.
\* Returns the directory to use and the disk afterwards.
prepare_frames_with_skip(dsk, src, skip, b, i, hasFrames, copyOk) ==
  IF skip <= 1 THEN [dir |-> src, disk |-> dsk]
  ELSE IF ~hasFrames THEN [dir |-> src, disk |-> dsk \cup {SkipDir(b, i)}]
  ELSE IF ~copyOk THEN [dir |-> src, disk |-> Remove(dsk, SkipDir(b, i))]
  ELSE [dir |-> SkipDir(b, i), disk |-> dsk \cup {SkipDir(b, i)}]

(* ------------------------ the Candidate Encoder ------------------------ *)
\* the overrides of try_optimization_params; settings is what
\* OptionsWindow.load_settings() reads from the settings file at that moment
EffectiveParams(settings, params) ==
  [quality    |-> IF settings.lock_quality THEN 100 ELSE params.quality,
   lossy      |-> IF settings.lock_lossy THEN 0 ELSE params.lossy,
   frame_skip |-> IF settings.lock_frame_skip THEN 1 ELSE params.frame_skip]

\* the lock settings tried: all three locks off, all three on
LockSettings ==
  { [lock_quality |-> b, lock_lossy |-> b, lock_frame_skip |-> b] : b \in BOOLEAN }

\* the loop runs tasks only while convert_to_gif is suspended in an await
LoopRuns == pc \in {"await_result", "polish_wait"}
\* no other coroutine is in the middle of a segment between two awaits
NoneMidSegment(i) == \A j \in Slots \ {i} : task[j].pc # "prepared"
LoopIdle == \A j \in Slots : task[j].pc # "prepared"
\* every task of the tier has had its first step: create_task queues the
\* first steps ahead of any wake-up by a process exit or a finished task
AllBegun == \A j \in Slots : task[j].pc # "new"

\* what a finished task hands to the result loop; size is what
\* os.path.getsize saw, drawn when the result is consumed
ResultOf(i, size) ==
  IF task[i].ok
  THEN [size |-> size, path |-> TempOpt(batch_idx, i), skip |-> task[i].skip_dir]
  ELSE FailedResult(task[i].skip_dir)

\* a task returns (ok: with the optimized file): the finally block removes
\* the pre-optimization file, as_completed queues the result, and the
\* Process objects of the coroutine, which have exited, go with its frame
TaskReturn(i, ok, rc, dsk) ==
  /\ proc' = [proc EXCEPT ![Gifski(i)] = "none", ![Gifsicle(i)] = "none"]
  /\ IF pc = "await_result"
     THEN /\ task' = [task EXCEPT ![i] = [pc |-> "done", skip_dir |-> @.skip_dir,
                                          ok |-> ok, rc |-> IF ok THEN rc ELSE 0]]
          /\ done_queue' = Append(done_queue, i)
     \* the result loop is over: nothing takes the result
     ELSE /\ task' = [task EXCEPT ![i] = [NewTask EXCEPT !.pc = "done"]]
          /\ done_queue' = done_queue
  /\ disk' = Remove(dsk, TempOut(batch_idx, i))

IsSetNever(ev) == FALSE

\* cancellation_event.is_set() in try_optimization_params
IsSet(ev) == ev

\* try_optimization_params up to prepare_frames_with_skip
TaskStart(i) ==
  /\ LoopRuns /\ LoopIdle
  /\ task[i].pc = "new"
  \* the loop gives the tasks their first step in the order of create_task
  /\ \A j \in Slots : j < i => task[j].pc # "new"
  /\ IF IsSet(cancellation_event)
     THEN TaskReturn(i, FALSE, 0, disk)
     ELSE \E copyOk \in BOOLEAN, settings \in LockSettings :
            LET params == EffectiveParams(settings, TierParams(batch_idx, i))
                r == prepare_frames_with_skip(disk, FramesDir, params.frame_skip,
                                              batch_idx, i, TRUE, copyOk)
            IN  /\ task' = [task EXCEPT ![i] = [pc |-> "prepared", skip_dir |-> r.dir,
                                                ok |-> FALSE, rc |-> 0]]
                /\ disk' = r.disk
                /\ done_queue' = done_queue
                /\ proc' = proc
  /\ UNCHANGED << is_converting, cancellation_event, desired_size, pc,
                  runLocals, out_size, report >>
  /\ UNCHANGED << uiVars, fnVars >>

\* from the check after prepare_frames_with_skip to the launch of gifski;
\* raises: the frame listing or the first frame cannot be read
TaskLaunchGifski(i) ==
  /\ LoopRuns /\ NoneMidSegment(i)
  /\ task[i].pc = "prepared"
  /\ \E raises \in BOOLEAN :
       IF IsSet(cancellation_event) \/ raises \/ task[i].skip_dir \notin disk
       THEN TaskReturn(i, FALSE, 0, disk)
       ELSE /\ task' = [task EXCEPT ![i].pc = "gifski_wait"]
            /\ proc' = [proc EXCEPT ![Gifski(i)] = "running"]
            /\ UNCHANGED << done_queue, disk >>
  /\ UNCHANGED << is_converting, cancellation_event, desired_size, pc,
                  runLocals, out_size, report >>
  /\ UNCHANGED << uiVars, fnVars >>

\* the polling loop sees the flag while the process runs: terminate(),
\* await proc.wait() until the process has exited, return the failed result
TaskTerminate(i, p, from) ==
  /\ LoopRuns /\ LoopIdle /\ AllBegun
  /\ task[i].pc = from
  /\ cancellation_event
  /\ proc[p] = "running"
  /\ TaskReturn(i, FALSE, 0, disk)
  /\ UNCHANGED << is_converting, cancellation_event, desired_size, pc,
                  runLocals, out_size, report >>
  /\ UNCHANGED << uiVars, fnVars >>

\* gifski exits on its own (wrote: with its output written; its exit code is
\* not read): output check, cancellation check, launch of gifsicle
TaskGifskiDone(i) ==
  /\ LoopRuns /\ LoopIdle /\ AllBegun
  /\ task[i].pc = "gifski_wait"
  /\ proc[Gifski(i)] = "running"
  /\ \E wrote \in BOOLEAN :
       LET dsk == AfterExit(Gifski(i), wrote, disk)
       IN  IF TempOut(batch_idx, i) \notin dsk \/ IsSet(cancellation_event)
           THEN TaskReturn(i, FALSE, 0, dsk)
           ELSE /\ task' = [task EXCEPT ![i].pc = "gifsicle_wait"]
                /\ proc' = [proc EXCEPT ![Gifski(i)] = "exited",
                                        ![Gifsicle(i)] = "running"]
                /\ disk' = dsk
                /\ done_queue' = done_queue
  /\ UNCHANGED << is_converting, cancellation_event, desired_size, pc,
                  runLocals, out_size, report >>
  /\ UNCHANGED << uiVars, fnVars >>

\* gifsicle exits on its own (wrote: with its output written; code: its exit
\* code, which is not read): output check, return
TaskGifsicleDone(i) ==
  /\ LoopRuns /\ LoopIdle /\ AllBegun
  /\ task[i].pc = "gifsicle_wait"
  /\ proc[Gifsicle(i)] = "running"
  /\ \E wrote \in BOOLEAN, code \in ExitCodes :
       LET dsk == AfterExit(Gifsicle(i), wrote, disk)
       IN  TaskReturn(i, TempOpt(batch_idx, i) \in dsk, code, dsk)
  /\ UNCHANGED << is_converting, cancellation_event, desired_size, pc,
                  runLocals, out_size, report >>
  /\ UNCHANGED << uiVars, fnVars >>

try_optimization_params(i) ==
  \/ TaskStart(i)
  \/ TaskLaunchGifski(i)
  \/ TaskTerminate(i, Gifski(i), "gifski_wait")
  \/ TaskGifskiDone(i)
  \/ TaskTerminate(i, Gifsicle(i), "gifsicle_wait")
  \/ TaskGifsicleDone(i)

(* ------------------------- the Batch Scheduler ------------------------- *)
Abs(x) == IF x < 0 THEN -x ELSE x

ValidAlways(r, dsk) == TRUE

\* size != inf and temp_path and os.path.exists(temp_path)
Valid(r, dsk) == r.size # Inf /\ r.path # NoPath /\ r.path \in dsk

CloserAlways(size, best, target) == TRUE

CloserOrTied(size, best, target) ==
  best = Inf \/ Abs(target - size) <= Abs(target - best)

\* best_size == inf or abs(target - size) < abs(target - best_size)
Closer(size, best, target) ==
  best = Inf \/ Abs(target - size) < Abs(target - best)

AcceptableInclusive(size, target) == Abs(target - size) * 100 <= 5 * target

\* abs(target - size) / target < 0.05
Acceptable(size, target) == Abs(target - size) * 100 < 5 * target

UnderTargetAlways(size, target) == TRUE

\* if size <= target_size_bytes
UnderTarget(size, target) == size <= target

UniformStopNever(under, best) == FALSE

\* if batch_results_under_target and best_result is not None: break
UniformStop(under, best) == under /\ best # NoPath

SaveErrorSwallowed == "success"

\* what the except branch of the save block shows: messagebox.showerror
SaveErrorReport == "error"

\* top of the tier loop: cancellation check, batch directory, task list
TierStart ==
  /\ pc = "tier_start"
  /\ IF cancellation_event
     THEN /\ pc' = "cleanup"
          /\ UNCHANGED << disk, attempt_counter >>
     ELSE /\ disk' = disk \cup {BatchDir(batch_idx)}
          /\ attempt_counter' = attempt_counter + AttemptsPerTier
          /\ pc' = "tier_launch"
  /\ UNCHANGED << is_converting, cancellation_event, desired_size,
                  batch_idx, best_size, best_result, found_acceptable_result,
                  batch_results_under_target, temp_files_to_cleanup, consumed,
                  result, tier_candidates, cleanup_errors, task, done_queue,
                  proc, out_size, report >>
  /\ UNCHANGED << uiVars, fnVars >>

\* cancellation check after the task list is built, then create_task for
\* every attempt of the tier (the previous tier's tasks and processes are gone)
TierLaunch ==
  /\ pc = "tier_launch"
  /\ IF cancellation_event
     THEN /\ pc' = "after_loop"
          /\ UNCHANGED << task, proc, done_queue, consumed, batch_results_under_target >>
     ELSE /\ task' = [i \in Slots |-> [NewTask EXCEPT !.pc = "new"]]
          /\ proc' = [p \in ProcIds |-> "none"]
          /\ done_queue' = << >>
          /\ consumed' = {}
          /\ batch_results_under_target' = TRUE
          /\ pc' = "loop_head"
  /\ UNCHANGED << is_converting, cancellation_event, desired_size,
                  batch_idx, attempt_counter, best_size, best_result,
                  found_acceptable_result, temp_files_to_cleanup, result,
                  tier_candidates, cleanup_errors, disk, out_size, report >>
  /\ UNCHANGED << uiVars, fnVars >>

ExhaustedAfterFirst(done) == done # {}

\* as_completed(pending) has yielded every task of the tier
Exhausted(done) == Cardinality(done) = AttemptsPerTier

\* for coro in asyncio.as_completed(pending): end of the iteration, or the
\* cancellation check that cancels the unfinished tasks and breaks
LoopHead ==
  /\ pc = "loop_head"
  /\ IF Exhausted(consumed)
     THEN pc' = "tier_end" /\ task' = task
     ELSE IF cancellation_event
     THEN /\ task' = [i \in Slots |->
                        IF task[i].pc # "done"
                        THEN [task[i] EXCEPT !.pc = "cancelled"] ELSE task[i]]
          /\ pc' = "tier_end"
     ELSE pc' = "await_result" /\ task' = task
  \* size, temp_path, skip_dir of the last iteration are not read again
  /\ result' = FailedResult(NoPath)
  /\ UNCHANGED << is_converting, cancellation_event, desired_size,
                  batch_idx, attempt_counter, best_size, best_result,
                  found_acceptable_result, batch_results_under_target,
                  temp_files_to_cleanup, consumed, tier_candidates,
                  cleanup_errors, done_queue, proc, disk, out_size, report >>
  /\ UNCHANGED << uiVars, fnVars >>

\* size, temp_path, skip_dir = await coro, and the best-result update; the
\* task object is not read again
ConsumeResult ==
  /\ pc = "await_result"
  /\ LoopIdle /\ AllBegun
  /\ done_queue # << >>
  /\ \E size \in Sizes :
       LET i == Head(done_queue)
           r == ResultOf(i, size)
           t == target_size_bytes
           under  == Valid(r, disk) /\ UnderTarget(r.size, t)
           accept == under /\ Closer(r.size, best_size, t)
           stop   == accept /\ Acceptable(r.size, t)
       IN  /\ result' = r
           /\ task' = [task EXCEPT ![i] = [NewTask EXCEPT !.pc = "done"]]
           /\ done_queue' = Tail(done_queue)
           /\ consumed' = consumed \cup {i}
           /\ temp_files_to_cleanup' =
                IF r.skip # NoPath /\ r.skip # FramesDir
                THEN temp_files_to_cleanup \cup {r.skip} ELSE temp_files_to_cleanup
           /\ best_size' = IF accept THEN r.size ELSE best_size
           /\ best_result' = IF accept THEN r.path ELSE best_result
           /\ found_acceptable_result' = (found_acceptable_result \/ stop)
           /\ batch_results_under_target' =
                IF Valid(r, disk) /\ ~under THEN FALSE ELSE batch_results_under_target
           /\ tier_candidates' =
                IF r.size = Inf \/ r.path \notin disk THEN tier_candidates
                ELSE tier_candidates \cup {IF r.size <= t THEN "under" ELSE "over"}
           /\ pc' = IF stop THEN "tier_end" ELSE "loop_head"
  /\ UNCHANGED << is_converting, cancellation_event, desired_size,
                  batch_idx, attempt_counter, cleanup_errors, proc,
                  disk, out_size, report >>
  /\ UNCHANGED << uiVars, fnVars >>

\* after the result loop: schedule the batch directory, early stops.  The
\* finished tasks and the as_completed iterator are not read again: the
\* model forgets them here, and lets the batch directory stand for the
\* candidate files of finished attempts that are not the best.
TierEnd ==
  /\ pc = "tier_end"
  /\ temp_files_to_cleanup' = temp_files_to_cleanup \cup {BatchDir(batch_idx)}
  /\ IF cancellation_event \/ found_acceptable_result
     THEN pc' = "after_loop" /\ batch_idx' = batch_idx
     ELSE IF UniformStop(batch_results_under_target, best_result)
     THEN pc' = "after_loop" /\ batch_idx' = batch_idx
     ELSE IF batch_idx = NumTiers
     THEN pc' = "after_loop" /\ batch_idx' = batch_idx
     ELSE pc' = "tier_start" /\ batch_idx' = batch_idx + 1
  /\ task' = [i \in Slots |-> IF task[i].pc = "done"
                              THEN [NewTask EXCEPT !.pc = "done"] ELSE task[i]]
  /\ done_queue' = << >>
  /\ consumed' = {}
  /\ result' = FailedResult(NoPath)
  /\ tier_candidates' = {}
  /\ batch_results_under_target' = FALSE
  /\ disk' = { p \in disk :
                (p.kind = "temp_optimized" /\ (p.b # batch_idx \/ task[p.i].pc = "done"))
                => p = best_result }
  /\ UNCHANGED << is_converting, cancellation_event, desired_size,
                  attempt_counter, best_size, best_result,
                  found_acceptable_result, cleanup_errors, proc, out_size,
                  report >>
  /\ UNCHANGED << uiVars, fnVars >>

\* "Save the best result if we found one"
AfterLoop ==
  /\ pc = "after_loop"
  /\ IF best_result # NoPath /\ best_result \in disk /\ ~cancellation_event
     THEN \E use_imagemagick \in BOOLEAN :
          IF use_imagemagick
          THEN /\ disk' = Remove(disk, OutputPath)
               /\ out_size' = 0
               /\ proc' = [proc EXCEPT ![ImageMagick] = "running"]
               /\ pc' = "polish_wait"
               /\ report' = report
          ELSE \E copied \in BOOLEAN :
               /\ disk' = IF copied THEN disk \cup {OutputPath}
                          ELSE Remove(disk, OutputPath)
               /\ out_size' = IF copied THEN best_size ELSE 0
               /\ proc' = proc
               /\ report' = IF copied THEN "success" ELSE SaveErrorReport
               /\ pc' = "cleanup"
     ELSE /\ report' = IF cancellation_event THEN report ELSE "not_found"
          /\ pc' = "cleanup"
          /\ UNCHANGED << disk, out_size, proc >>
  /\ UNCHANGED << is_converting, cancellation_event, desired_size,
                  runLocals, task, done_queue >>
  /\ UNCHANGED << uiVars, fnVars >>

\* the polish process exits: the rest of apply_imagemagick_optimization and
\* the caller's handling of its result
PolishDone ==
  /\ pc = "polish_wait"
  /\ LoopIdle
  /\ proc[ImageMagick] = "running"
  /\ proc' = [proc EXCEPT ![ImageMagick] = "exited"]
  /\ \E ok \in BOOLEAN :
       LET dsk == AfterExit(ImageMagick, ok, disk)
       IN  IF ImTemp(PolishSource) \in dsk
           THEN \E s \in FinalSizes :
                  /\ disk' = Remove(dsk, ImTemp(PolishSource)) \cup {OutputPath}
                  /\ out_size' = s
                  /\ report' = IF desired_size = None \/ s <= target_size_bytes
                               THEN "success" ELSE "success_over"
           ELSE /\ report' = IF desired_size = None THEN ErrorReport ELSE SaveErrorReport
                /\ disk' = dsk
                /\ out_size' = out_size
  /\ pc' = "cleanup"
  /\ UNCHANGED << is_converting, cancellation_event, desired_size,
                  runLocals, task, done_queue >>
  /\ UNCHANGED << uiVars, fnVars >>

(* ------------------ the single attempt without a target ---------------- *)
mainOnly == << is_converting, cancellation_event, desired_size,
               runLocals, task, done_queue, out_size >>

\* cancellation check, then launch of gifski at quality 100
MaxStart ==
  /\ pc = "max_start"
  /\ IF cancellation_event
     THEN pc' = "cleanup" /\ proc' = proc
     ELSE /\ proc' = [proc EXCEPT ![GifskiMax] = "running"]
          /\ pc' = "max_gifski_wait"
  /\ UNCHANGED << mainOnly, disk, report >>
  /\ UNCHANGED << uiVars, fnVars >>

\* the process exits within the 0.5 s of asyncio.wait_for(p.wait(), 0.5), so
\* the while loop over returncode is not entered; or it exits while
\* convert_to_gif is in the await p.wait() of the except branch
MaxExited(p, from, to) ==
  /\ pc \in from
  /\ proc[p] = "running"
  /\ proc' = [proc EXCEPT ![p] = "exited"]
  /\ \E ok \in BOOLEAN : disk' = AfterExit(p, ok, disk)
  /\ pc' = to
  /\ UNCHANGED << mainOnly, report >>
  /\ UNCHANGED << uiVars, fnVars >>

\* asyncio.TimeoutError after 0.5 s: if the flag is set, terminate(), await
\* p.wait() until the process has exited and return ("Conversion cancelled
\* by user"); else await p.wait() with no further check
MaxWaitTimeout(p, from, block) ==
  /\ pc = from
  /\ proc[p] = "running"
  /\ IF cancellation_event
     THEN /\ proc' = [proc EXCEPT ![p] = "exited"]
          /\ pc' = "cleanup"
     ELSE /\ proc' = proc
          /\ pc' = block
  /\ UNCHANGED << mainOnly, disk, report >>
  /\ UNCHANGED << uiVars, fnVars >>

\* cancellation check before optimization, then launch of gifsicle
MaxMid ==
  /\ pc = "max_mid"
  /\ IF cancellation_event
     THEN pc' = "cleanup" /\ proc' = proc
     ELSE /\ proc' = [proc EXCEPT ![GifsicleMax] = "running"]
          /\ pc' = "max_gifsicle_wait"
  /\ UNCHANGED << mainOnly, disk, report >>
  /\ UNCHANGED << uiVars, fnVars >>

\* "Save the result" of the no-target attempt
MaxSave ==
  /\ pc = "max_save"
  /\ IF MaxQOpt \in disk
     THEN \E use_imagemagick \in BOOLEAN :
          IF use_imagemagick
          THEN /\ proc' = [proc EXCEPT ![ImageMagick] = "running"]
               /\ pc' = "polish_wait"
               /\ UNCHANGED << disk, out_size, report >>
          ELSE /\ \E copied \in BOOLEAN :
                    IF copied
                    THEN /\ \E s \in FinalSizes : out_size' = s
                         /\ disk' = disk \cup {OutputPath}
                         /\ report' = "success"
                    ELSE /\ report' = ErrorReport
                         /\ UNCHANGED << disk, out_size >>
               /\ pc' = "cleanup"
               /\ proc' = proc
     ELSE /\ report' = ErrorReport
          /\ pc' = "cleanup"
          /\ UNCHANGED << disk, out_size, proc >>
  /\ UNCHANGED << is_converting, cancellation_event, desired_size,
                  runLocals, task, done_queue >>
  /\ UNCHANGED << uiVars, fnVars >>

MaxQuality ==
  \/ MaxStart
  \/ MaxExited(GifskiMax, {"max_gifski_wait", "max_gifski_block"}, "max_mid")
  \/ MaxWaitTimeout(GifskiMax, "max_gifski_wait", "max_gifski_block")
  \/ MaxMid
  \/ MaxExited(GifsicleMax, {"max_gifsicle_wait", "max_gifsicle_block"}, "max_save")
  \/ MaxWaitTimeout(GifsicleMax, "max_gifsicle_wait", "max_gifsicle_block")
  \/ MaxSave

(* ---------------------------- specification ---------------------------- *)
\* one conversion run, from the Convert click that starts it
Next ==
  \/ pc = "idle" /\ toggle_conversion
  \/ stop_conversion
  \/ Setup
  \/ Extract
  \/ MaxQuality
  \/ TierStart
  \/ TierLaunch
  \/ LoopHead
  \/ ConsumeResult
  \/ TierEnd
  \/ AfterLoop
  \/ PolishDone
  \/ Cleanup
  \/ \E i \in Slots : try_optimization_params(i)
  \/ \E p \in ProcIds : ProcExit(p)

Spec == Init /\ [][Next]_vars

\* conversions one after the other, single files and batches, each without a
\* target size (empty size field)
NextRuns ==
  \/ toggle_conversion
  \/ stop_conversion
  \/ WaiterJoined
  \/ wait_for_conversion_end
  \/ start_batch_processing
  \/ stop_batch_processing
  \/ on_file_processed
  \/ process_next_file
  \/ Setup
  \/ Extract
  \/ MaxQuality
  \/ PolishDone
  \/ Cleanup
  \/ run_conversion
  \/ run_batch_conversion

SpecRuns == Launched(None) /\ [][NextRuns]_vars

(* ----------------------- functions on their own ------------------------ *)
\* the loop flag of a gifsicle command line
NoFlag == [flag |-> "none", n |-> 0]
NoLoop == [flag |-> "--no-loop", n |-> 0]
Loop(n) == [flag |-> "--loop", n |-> n]

\* loop_param of try_optimization_params
LoopParamTier(play_count) ==
  IF play_count = 1 THEN NoLoop
  ELSE IF play_count > 1 THEN Loop(play_count - 1)
  ELSE NoFlag

\* loop_param of the no-target attempt of convert_to_gif
LoopParamMax(play_count) ==
  IF play_count = 0 THEN NoFlag
  ELSE Loop(play_count - 1)

\* the values of the loop_count setting (OptionsWindow saves max(0, n))
PlayCounts == 0 .. MaxPlayCount
\* the frame_skip values, the tiers' and two more
Skips == 0 .. MaxSkip
\* the numbers of frames handed to gifski
FrameCounts == {1, 120, 130}
\* one round of the polling loop, in tenths of a second: wait_for(...,
\* timeout=0.5) and asyncio.sleep(0.1)
PollTime == 6
\* timeout = max(60, min(300, frame_count * 0.5)), in tenths of a second
Timeout(frame_count) ==
  LET t == IF frame_count * 5 < 3000 THEN frame_count * 5 ELSE 3000
  IN  IF t > 600 THEN t ELSE 600
\* the disks prepare_frames_with_skip is called on
PrepareDisks ==
  { d \cup {TempParent, FramesDir} : d \in SUBSET {BatchDir(1), SkipDir(1, 0), SkipDir(1, 1)} }

Calls ==
  { [fn |-> "loop_param", site |-> st, play_count |-> n] :
      st \in {"try_optimization_params", "convert_to_gif"}, n \in PlayCounts }
  \cup
  { [fn |-> "prepare_frames_with_skip", skip |-> k, i |-> i, hasFrames |-> h,
     copyOk |-> c, before |-> d] :
      k \in Skips, i \in {0, 1}, h \in BOOLEAN, c \in BOOLEAN, d \in PrepareDisks }
  \cup
  { [fn |-> "OptimizationParams", b |-> b, i |-> i, settings |-> st] :
      b \in Tiers, i \in Slots, st \in LockSettings }
  \cup
  { [fn |-> "gifski_wait", frame_count |-> n, hangs |-> h] :
      n \in FrameCounts, h \in BOOLEAN }

fnFrame == << is_converting, cancellation_event, desired_size, pc, runLocals,
             task, done_queue, proc, out_size, report, uiVars, call >>

\* the gifsicle command line is built
ApplyLoopParam ==
  /\ call.fn = "loop_param"
  /\ ret = NoCall
  /\ ret' = [fn |-> "loop_param",
             value |-> IF call.site = "try_optimization_params"
                       THEN LoopParamTier(call.play_count)
                       ELSE LoopParamMax(call.play_count)]
  /\ UNCHANGED << fnFrame, disk >>

\* prepare_frames_with_skip(frames_dir, skip, 1, i)
ApplyPrepare ==
  /\ call.fn = "prepare_frames_with_skip"
  /\ ret = NoCall
  /\ LET r == prepare_frames_with_skip(disk, FramesDir, call.skip, 1, call.i,
                                       call.hasFrames, call.copyOk)
     IN  /\ ret' = [fn |-> "prepare_frames_with_skip", value |-> r.dir]
         /\ disk' = r.disk
  /\ UNCHANGED fnFrame

\* the scheduler builds the OptimizationParams of attempt i of tier b and
\* try_optimization_params applies the lock overrides
ApplyParams ==
  /\ call.fn = "OptimizationParams"
  /\ ret = NoCall
  /\ ret' = [fn |-> "OptimizationParams",
             built |-> TierParams(call.b, call.i),
             value |-> EffectiveParams(call.settings, TierParams(call.b, call.i))]
  /\ UNCHANGED << fnFrame, disk >>

\* the polling loop of try_optimization_params on the gifski process while
\* the flag is clear: the process is seen to have exited (unless it hangs),
\* or wait_for times out after 0.5 s and the loop sleeps 0.1 s and goes
\* round again.  elapsed is in tenths of a second.
WaitGifski ==
  /\ call.fn = "gifski_wait"
  /\ ~cancellation_event
  /\ LET r == IF ret = NoCall
              THEN [fn |-> "gifski_wait", elapsed |-> 0, value |-> "waiting"]
              ELSE ret
     IN  /\ r.value = "waiting"
         /\ \/ /\ ~call.hangs
               /\ ret' = [r EXCEPT !.value = "exited"]
            \/ /\ r.elapsed < MaxPolls * PollTime
               /\ ret' = [r EXCEPT !.elapsed = @ + PollTime]
  /\ UNCHANGED << fnFrame, disk >>

NextFn ==
  \/ WaitGifski
  \/ ApplyLoopParam
  \/ ApplyPrepare
  \/ ApplyParams

InitFn ==
  \E c \in Calls :
    Constructed(None, IF c.fn = "prepare_frames_with_skip" THEN c.before ELSE {}, c)

SpecFn == InitFn /\ [][NextFn]_vars

TypeOK ==
  /\ is_converting \in BOOLEAN
  /\ cancellation_event \in BOOLEAN
  /\ desired_size \in DesiredSizes \cup {None}
  /\ best_size \in Sizes \cup {Inf}
  /\ batch_idx \in 0 .. NumTiers
  /\ disk \subseteq { P(k, b, i) : k \in {"gif_conversion_temp", "frames_temp", "output",
        "max_quality", "max_quality_optimized", "batch", "frames_skip", "temp",
        "temp_optimized", "imagemagick_temp"}, b \in 0 .. NumTiers, i \in Slots }
  /\ report \in {"none", "success", "success_over", "not_found", "error"}
  /\ \A p \in ProcIds : proc[p] \in {"none", "running", "exited"}
  /\ \A i \in Slots :
       task[i].pc \in {"none", "new", "prepared", "gifski_wait", "gifsicle_wait",
                       "done", "cancelled"}
  /\ \A k \in 1 .. Len(done_queue) : done_queue[k] \in Slots
  /\ consumed \subseteq Slots
  /\ result.size \in Sizes \cup {Inf}
  /\ tier_candidates \subseteq {"under", "over"}
  /\ Cardinality(cleanup_errors) <= MaxRemovalFailures + 1
  /\ attempt_counter \in 0 .. (NumTiers * AttemptsPerTier)
  /\ out_size \in Sizes \cup {0}
  /\ size_entry \in DesiredSizes \cup {None}
  /\ conversion_thread \in {"none", "run_conversion", "run_batch_conversion", "several"}
  /\ is_processing_batch \in BOOLEAN
  /\ current_processing_index \in -1 .. (MaxQueue + 1)
  /\ pending \subseteq {BatchCallback(TRUE), BatchCallback(FALSE), "process_next_file"}
  /\ batch_message \in {"none", "completed"}
  /\ waiter \subseteq {"joining", "joined"}
  /\ prev_cancelled \in BOOLEAN

(* ------------------------------- claims -------------------------------- *)
\* the run ended FOUND: the file is at the output path and the Success dialog
\* was shown, with the "saved successfully" or the "exceeds target" message
Found == {"success", "success_over"}

\* C1 as stated: in a target-size run no candidate above the target is
\* stored as the best, and a run that ends FOUND delivered a file of size at
\* most the target.
C1_FoundWithinTarget ==
  desired_size # None =>
    /\ (best_size # Inf => best_size <= target_size_bytes)
    /\ (report \in Found /\ OutputPath \in disk => out_size <= target_size_bytes)

\* C1 amended: no candidate above the target is stored as the best; a run
\* that reports plain success delivered a file of size at most the target;
\* a delivered file above the target comes only out of the polish pass and
\* is reported with the "exceeds target" message.
C1_BestWithinTarget ==
  desired_size # None =>
    /\ (best_size # Inf => best_size <= target_size_bytes)
    /\ (report = "success" /\ OutputPath \in disk => out_size <= target_size_bytes)
    /\ (report = "success_over" =>
          proc[ImageMagick] = "exited" /\ out_size > target_size_bytes)

\* a target-size run delivered its best candidate unpolished
C1_FoundByCopy ==
  /\ pc = "cleanup" /\ desired_size # None /\ report = "success"
  /\ proc[ImageMagick] = "none"
  /\ OutputPath \in disk /\ out_size = best_size

\* C2 as stated: in a target-size run, no step taken while the cancellation
\* flag is set reports FOUND.
C2_CancelledNeverFound ==
  [][desired_size # None /\ cancellation_event /\ report \notin Found
       => report' \notin Found]_vars

\* C3 as stated: when a cancelled run has returned, no external process it
\* launched is still running.
C3_ProcessesExitedBeforeReturn ==
  pc = "returned" /\ cancellation_event => \A p \in ProcIds : ~Live(p)

C5_BestOfFinished ==
  pc = "tier_end" /\ ~cancellation_event =>
    \A i \in Slots \ consumed :
      (task[i].pc = "done" /\ task[i].ok /\ TempOpt(batch_idx, i) \in disk)
      => \A s \in Sizes :
           s <= target_size_bytes
           => Abs(target_size_bytes - best_size) <= Abs(target_size_bytes - s)

\* C5 amended: every step of the result loop leaves a best that is at least
\* as close to the target as the valid under-target result it consumed and
\* as the best before it, and that is one of the two; the loop stops early
\* only at a consumed result that became the best and is within 5% of the
\* target.
C5_BestOfConsumed ==
  [][pc = "await_result" /\ pc' # "await_result"
     => /\ (result'.size # Inf /\ result'.path \in disk
              /\ result'.size <= target_size_bytes)
           => Abs(target_size_bytes - best_size')
                <= Abs(target_size_bytes - result'.size)
        /\ best_size # Inf
           => Abs(target_size_bytes - best_size')
                <= Abs(target_size_bytes - best_size)
        /\ best_size' \in {best_size, result'.size}
        /\ pc' = "tier_end"
           => /\ best_size' = result'.size
              /\ Acceptable(best_size', target_size_bytes)]_vars

\* a valid under-target result was consumed after a closer one and the best
\* stayed
C5_FartherCameLater ==
  /\ pc = "loop_head"
  /\ result.path \in disk
  /\ result.size < best_size /\ best_size <= target_size_bytes
  /\ best_result # result.path

\* C6: the run goes on to the next tier only if the tier that ended gave no
\* valid candidate or a valid candidate above the target.
C6_UniformTierEndsSearch ==
  [][pc = "tier_end" /\ pc' = "tier_start"
       => (tier_candidates = {} \/ "over" \in tier_candidates)]_vars

\* the first of two tiers ended with every valid candidate under the target
\* and none within 5% of it, and the search is over
C6_StoppedAfterFirstTier ==
  /\ pc = "after_loop" /\ batch_idx = 1
  /\ ~cancellation_event /\ ~found_acceptable_result
  /\ best_result # NoPath

\* C7: a failing attempt comes back as (inf, "", skip directory), and the
\* step that consumes it goes on with the result loop and changes neither
\* the best, nor the tier's flags, nor what the run reports.
C7_FailedAttemptIsSkipped ==
  [][(/\ pc = "await_result" /\ pc' # "await_result"
      /\ result'.size = Inf)
     => /\ result' = FailedResult(result'.skip)
        /\ pc' = "loop_head"
        /\ Cardinality(consumed') = Cardinality(consumed) + 1
        /\ best_size' = best_size
        /\ best_result' = best_result
        /\ batch_results_under_target' = batch_results_under_target
        /\ found_acceptable_result' = found_acceptable_result
        /\ report' = report]_vars

\* in the second tier a failed attempt was consumed, the best of the first
\* tier is kept and the result loop goes on
C7_FailedThenContinued ==
  /\ pc = "loop_head" /\ batch_idx = 2 /\ ~cancellation_event
  /\ result.size = Inf /\ consumed # {} /\ consumed # Slots
  /\ best_result = TempOpt(1, 0)

\* C8: in a run without a target no tier attempt and no tier directory
\* exists, the optimizer is launched only after the one assembler has
\* exited, and FOUND is reported only after that optimizer has exited.
C8_NoTargetSingleAttempt ==
  desired_size = None =>
    /\ \A i \in Slots :
         /\ task[i].pc = "none"
         /\ proc[Gifski(i)] = "none" /\ proc[Gifsicle(i)] = "none"
    /\ \A b \in Tiers : BatchDir(b) \notin disk
    /\ attempt_counter = 0 /\ best_result = NoPath
    /\ (proc[GifsicleMax] # "none" => proc[GifskiMax] = "exited")
    /\ (report \in Found => proc[GifsicleMax] = "exited")
    /\ report # "not_found"

\* a run without a target has returned FOUND
C8_NoTargetFound ==
  /\ pc = "returned" /\ desired_size = None /\ report = "success"
  /\ proc[GifskiMax] = "exited" /\ proc[GifsicleMax] = "exited"
  /\ OutputPath \in disk

\* C9 as stated: once cancellation is requested, no coroutine is suspended
\* in a wait for a running assembler or optimizer that does not check the
\* flag again.
C9_EveryWaitPollsFlag ==
  cancellation_event =>
    /\ ~(pc = "max_gifski_block" /\ proc[GifskiMax] = "running")
    /\ ~(pc = "max_gifsicle_block" /\ proc[GifsicleMax] = "running")

\* C10 as stated: once the polish pass of a target-size run has exited, the
\* run is FOUND and the output path holds a file.
C10_PolishFailureFallsBack ==
  desired_size # None /\ proc[ImageMagick] = "exited"
    => report \in Found /\ OutputPath \in disk

\* C10 amended: once the polish pass of a target-size run has exited, either
\* its output is at the output path and the run is FOUND, or the output path
\* holds nothing and the run has reported an error.
C10_PolishFailureIsError ==
  desired_size # None /\ proc[ImageMagick] = "exited"
    => IF OutputPath \in disk THEN report \in Found ELSE report = "error"

\* the polish pass of a target-size run failed on an existing winner
C10_PolishFailed ==
  /\ pc = "cleanup" /\ desired_size # None
  /\ proc[ImageMagick] = "exited"
  /\ best_result \in disk
  /\ OutputPath \notin disk /\ report = "error"

\* C11 as stated: an attempt that returned its optimized file had no process
\* that exited with a non-zero code.
C11_SuccessOnlyOnExitZero ==
  \A i \in Slots : task[i].pc = "done" /\ task[i].ok => task[i].rc = 0

\* C12: every step that starts a conversion thread, from the Convert button
\* or for a file of a batch, leaves the cancellation flag clear.
C12_FlagClearAtRunStart ==
  [][pc = "idle" /\ pc' = "setup" => ~cancellation_event']_vars

\* a file of a batch starts to be converted after a run that ended with the
\* flag set
C12_BatchRunAfterCancelledRun ==
  /\ pc = "setup" /\ conversion_thread = "run_batch_conversion"
  /\ prev_cancelled /\ ~cancellation_event /\ is_converting

\* C13 as stated: whichever gifsicle command line is built, play count 1
\* gives --no-loop, play count n > 1 gives --loop=(n-1), play count 0 gives
\* no loop flag.
C13_SameLoopFlagEverywhere ==
  ret.fn = "loop_param" =>
    /\ (call.play_count = 1 => ret.value = NoLoop)
    /\ (call.play_count > 1 => ret.value = Loop(call.play_count - 1))
    /\ (call.play_count = 0 => ret.value = NoFlag)

\* C14: prepare_frames_with_skip called with skip <= 1 returns the source
\* directory and leaves the disk as it was.
C14_SkipAtMostOneIsIdentity ==
  ret.fn = "prepare_frames_with_skip" /\ call.skip <= 1 =>
    ret.value = FramesDir /\ disk = call.before

\* prepare_frames_with_skip was called with skip = 1 on frames that can be
\* copied
C14_CalledWithSkipOne ==
  /\ ret.fn = "prepare_frames_with_skip" /\ call.skip = 1
  /\ call.hasFrames /\ call.copyOk
  /\ ret.value = FramesDir

\* C15: from the start of a target-size run to its finally block, the best
\* is either (inf, none) or a candidate file that exists, with a size at
\* most the target; and whenever the best changes, its size and its path are
\* those of the one result just consumed.
C15_BestIsExistingCandidate ==
  /\ [](desired_size # None /\ pc \notin {"idle", "returned"} =>
          IF best_result = NoPath THEN best_size = Inf
          ELSE /\ best_result \in disk
               /\ best_result.kind = "temp_optimized"
               /\ best_size # Inf /\ best_size <= target_size_bytes)
  /\ [][(best_size' # best_size \/ best_result' # best_result) /\ pc' # "returned"
         => /\ pc = "await_result"
            /\ best_size' = result'.size /\ best_result' = result'.path]_vars

\* the best of the first tier is still the best, and on disk, while the
\* second tier's results are awaited
C15_BestKeptInSecondTier ==
  /\ pc = "await_result" /\ batch_idx = 2
  /\ best_result = TempOpt(1, 1) /\ best_result \in disk
  /\ best_size = 4000

\* C16: the step that consumes a result replaces the best by that result if
\* its size is finite, its file exists, its size is at most the target and it
\* is strictly closer to the target than the best (or there is no best);
\* any other result, a tie included, leaves the best as it was.
C16_ReplacedOnlyByStrictlyCloser ==
  [][pc = "await_result" /\ pc' # "await_result"
     => LET r == result'
            t == target_size_bytes
        IN  IF /\ r.size # Inf /\ r.path \in disk /\ r.size <= t
               /\ (best_size = Inf
                     \/ Abs(t - r.size) < Abs(t - best_size))
            THEN best_size' = r.size /\ best_result' = r.path
            ELSE best_size' = best_size /\ best_result' = best_result]_vars

\* a valid result as close to the target as the best was consumed and the
\* earlier one is still the best
C16_TieKeptEarlier ==
  /\ pc = "loop_head"
  /\ result.path \in disk /\ result.size = best_size
  /\ best_result \in disk /\ best_result # result.path

\* C17: the step that accepts a new best ends the result loop exactly if
\* that best is less than 5% away from the target; from then on no result is
\* consumed, no tier is started and the best stays, and without cancellation
\* the save block is entered for that candidate.
C17_WithinFivePercentStops ==
  /\ [][pc = "await_result" /\ pc' # "await_result" /\ best_result' # best_result
         => /\ (pc' = "tier_end"
                  <=> Abs(target_size_bytes - best_size') * 100 < 5 * target_size_bytes)
            /\ (pc' = "tier_end" <=> found_acceptable_result')]_vars
  /\ [][found_acceptable_result /\ pc' # "returned"
         => /\ found_acceptable_result'
            /\ best_result' = best_result /\ best_size' = best_size
            /\ batch_idx' = batch_idx
            /\ pc' \notin {"tier_start", "tier_launch", "loop_head", "await_result"}]_vars
  /\ [][pc = "after_loop" /\ pc' # "after_loop"
          /\ found_acceptable_result /\ ~cancellation_event
         => \/ pc' = "polish_wait" /\ proc'[ImageMagick] = "running"
                 /\ PolishSource = best_result
            \/ report' = "success" /\ out_size' = best_size /\ OutputPath \in disk'
            \/ report' = "error" /\ OutputPath \notin disk']_vars

\* the first tier was left at a best within 5% of the target while another
\* attempt of the tier was never consumed, and that best was delivered
C17_StoppedAndDelivered ==
  /\ pc = "cleanup" /\ batch_idx = 1 /\ found_acceptable_result
  /\ ~cancellation_event
  /\ report = "success" /\ out_size = best_size /\ best_size = 4900
  /\ \E i \in Slots : task[i].pc \in {"gifski_wait", "gifsicle_wait"}

\* C18 as stated: when the result loop of a tier is over without
\* cancellation and without a best within 5%, the condition of the
\* uniform-under-target stop holds only if the tier gave a valid result and
\* every valid result it gave was at or under the target.
C18_UniformStopNeedsOwnCandidate ==
  (/\ pc = "tier_end" /\ ~cancellation_event /\ ~found_acceptable_result
   /\ UniformStop(batch_results_under_target, best_result))
  => tier_candidates = {"under"}

\* C19: the run goes from a tier to the next only when every attempt of the
\* tier has returned and been consumed and none of its processes runs; while
\* a tier is being set up no attempt of any tier is in flight.
C19_TiersAreSequential ==
  /\ [][pc = "tier_end" /\ pc' = "tier_start"
         => /\ consumed = Slots
            /\ \A i \in Slots :
                 /\ task[i].pc = "done"
                 /\ ~Live(Gifski(i)) /\ ~Live(Gifsicle(i))]_vars
  /\ [](pc \in {"tier_start", "tier_launch"} =>
          \A i \in Slots :
            /\ task[i].pc \in {"none", "done"}
            /\ ~Live(Gifski(i)) /\ ~Live(Gifsicle(i)))

\* the second tier is about to be launched after the first one concluded
C19_SecondTierAfterFirst ==
  /\ pc = "tier_launch" /\ batch_idx = 2 /\ ~cancellation_event
  /\ \A i \in Slots : task[i].pc = "done"
  /\ BatchDir(1) \in disk /\ BatchDir(2) \in disk

\* C20: a step taken with the cancellation flag set creates no batch
\* directory and no frame-skip directory, creates no attempt task, moves to no
\* further tier and launches no assembler and no optimizer of an attempt.
C20_NoNewWorkAfterCancel ==
  [][cancellation_event
     => /\ \A b \in Tiers : BatchDir(b) \in disk' => BatchDir(b) \in disk
        /\ \A b \in Tiers, i \in Slots : SkipDir(b, i) \in disk' => SkipDir(b, i) \in disk
        /\ \A i \in Slots :
             /\ task'[i].pc = "new" => task[i].pc = "new"
             /\ Live(Gifski(i))' => Live(Gifski(i))
             /\ Live(Gifsicle(i))' => Live(Gifsicle(i))
        /\ pc' \notin {"tier_start", "tier_launch"} \/ pc' = pc
        /\ attempt_counter' <= attempt_counter]_vars

\* the flag was set before an attempt of the tier had begun, and the attempt
\* returned at its first check without a process
C20_AttemptNeverBegan ==
  /\ cancellation_event /\ pc = "await_result"
  /\ \E i \in Slots :
       /\ task[i].pc = "done" /\ ~task[i].ok /\ task[i].skip_dir = NoPath
       /\ proc[Gifski(i)] = "none" /\ proc[Gifsicle(i)] = "none"

\* C21: outside the finally block no step of a run removes the temporary
\* parent directory or a batch directory; while the run searches and
\* finalizes, the best candidate and the directories that hold it are on
\* disk; and when the finally block runs after the winner was delivered, the
\* file is already at the output path and stays there.
C21_CopyBeforeCleanup ==
  /\ [][pc \notin {"setup", "cleanup"}
        => \A d \in {TempParent} \cup { BatchDir(b) : b \in Tiers } :
             d \in disk => d \in disk']_vars
  /\ [](pc \in {"tier_start", "tier_launch", "loop_head", "await_result",
                "tier_end", "after_loop", "polish_wait"} /\ best_result # NoPath
          => /\ best_result \in disk
             /\ ParentDir(best_result) \in disk
             /\ TempParent \in disk)
  /\ [][pc = "cleanup" /\ pc' = "returned" /\ desired_size # None /\ report \in Found
        => OutputPath \in disk /\ OutputPath \in disk']_vars

\* a target-size run delivered its winner and then removed the whole tree
C21_DeliveredThenCleaned ==
  /\ pc = "returned" /\ desired_size # None /\ report \in Found
  /\ OutputPath \in disk /\ TempParent \notin disk /\ cleanup_errors = {}

\* C22 as stated, for a run that is not cancelled: when the run finalizes
\* the winner and when the finally block is about to remove the temporary
\* tree, every attempt of the run has returned and none of its processes is
\* running.
C22_NoAttemptInFlightAtFinalize ==
  (pc \in {"after_loop", "polish_wait", "cleanup"} /\ desired_size # None
     /\ ~cancellation_event)
  => \A i \in Slots :
       /\ task[i].pc \in {"none", "done"}
       /\ ~Live(Gifski(i)) /\ ~Live(Gifsicle(i))

\* C23 as stated: no conversion thread is started while another one is
\* alive, and is_converting is TRUE whenever convert_to_gif is running in a
\* conversion thread.
C23_OneRunAtATime ==
  /\ conversion_thread # "several"
  /\ (pc \notin {"idle", "returned"} => is_converting)

\* C24 as stated: the callback of a batch file's run is scheduled with
\* success = True only if the run wrote the output file and reported
\* success.
C24_BatchSuccessOnlyIfWritten ==
  [][BatchCallback(TRUE) \in pending' /\ BatchCallback(TRUE) \notin pending
       => report = "success"]_vars

\* C25 as stated: when the finally block of a target-size run is reached,
\* every batch directory and every frame-skip directory of the run that is
\* on disk is in the cleanup set.
C25_CreatedDirsAreScheduled ==
  (pc = "cleanup" /\ desired_size # None)
  => \A p \in disk :
       p.kind \in {"batch", "frames_skip"} => p \in temp_files_to_cleanup

\* C26 as stated: after a cleanup in which the removal of a path of the
\* cleanup set failed, nothing of the temporary tree is left but that path,
\* what lies inside it, and the parent directory that holds it.
C26_OneFailureLeavesTheRestRemoved ==
  (pc = "returned" /\ cleanup_errors \ {TempParent} # {})
  => \A p \in disk \ {OutputPath, TempParent} :
       \E d \in cleanup_errors \ {TempParent} : Under(p, d)

\* C27 as stated: prepare_frames_with_skip called with skip > 1 in a case
\* where no frame gets copied (the source holds no frames, or every copy
\* fails) returns the source directory and leaves no frame-skip directory.
C27_FailsSoftAndRemovesDir ==
  (/\ call.fn = "prepare_frames_with_skip" /\ ret # NoCall
   /\ call.skip > 1 /\ (~call.hasFrames \/ ~call.copyOk))
  => /\ ret.value = FramesDir
     /\ SkipDir(1, call.i) \notin disk

\* C28 as stated: the OptimizationParams built from the tier table and the
\* parameters that are in effect after the lock overrides have
\* frame_skip >= 1.
C28_FrameSkipAtLeastOne ==
  (call.fn = "OptimizationParams" /\ ret # NoCall)
  => ret.built.frame_skip >= 1 /\ ret.value.frame_skip >= 1

\* C29 as stated: a process_next_file that finds the batch stopped
\* (is_processing_batch already False) does not show the "Batch processing
\* completed" message.
C29_NoCompletedMessageAfterStop ==
  [][("process_next_file" \in pending /\ "process_next_file" \notin pending'
        /\ batch_message' = "completed")
     => is_processing_batch]_vars

\* C30 as stated, in its finite form: with the flag clear, a tiered attempt
\* that waits for gifski is not still waiting once the time waited is above
\* the frame-count-based timeout.
C30_GifskiWaitIsBounded ==
  (call.fn = "gifski_wait" /\ ret # NoCall /\ ret.elapsed > Timeout(call.frame_count))
  => ret.value # "waiting"

====
